---------------------------- MODULE Spec2Model ----------------------------
(***************************************************************************)
(* Model of the request-dispatch and catalog layer of the G4F gateway      *)
(* (src/app/services/g4f_service.py) and of the routes that call it        *)
(* (src/app/api/chat.py, images.py, models.py).                            *)
(*                                                                         *)
(* Nine specifications share the module's variables:                       *)
(*   SpecProvider  the pure lookup G4FService._get_provider                *)
(*   SpecCatalog   the model/provider cache and its routes                 *)
(*   SpecLookup    the lookups by id of src/app/api/models.py              *)
(*   SpecListing   the filters of the chat-model and image-model listings  *)
(*   SpecLoop      the event loop thread and the backend calls in flight   *)
(*   SpecOwnership dispatch and catalog operations in one process          *)
(*   SpecRateLimit RateLimitMiddleware of src/app/utils/middleware.py      *)
(*   SpecApiService G4FApiService of src/app/services/g4f_api_service.py   *)
(*   Spec          the dispatch of chat, stream and image requests         *)
(* Each specification leaves the variables of the others unchanged.        *)
(***************************************************************************)
EXTENDS Integers, Sequences, FiniteSets, TLC

VARIABLES
    \* module state of g4f_service.py
    imported,           \* whether `from g4f.Provider import ...` bound the classes
    g4f_retries,        \* settings.g4f_retries, read from G4F_RETRIES at import
    \* SpecProvider
    provider_name,      \* argument of the last _get_provider call
    resolved,           \* its return value
    \* G4FService fields and the clock
    models_cache, providers_cache, cache_timestamp, initialized,
    now,                \* time.time()
    ret,                \* what the last service call returned
    http,               \* the last HTTP response of a route
    last_fetch,         \* history: time and payload of the last successful
                        \* refresh inside get_models
    \* dispatch of one request at a time
    pc,                 \* "idle", "attempt", "sleep" or "stream"
    req,                \* the request being served, or the last one served
    attempt_number,     \* tenacity's retry_state.attempt_number
    wait,               \* seconds of tenacity's latest sleep for req (0: none yet)
    invocations,        \* history: backend calls made for req
    failures,           \* history: backend calls for req that raised
    last_outcome,       \* history: what the last backend call did
    gen,                \* the stream generator: position and backend stream
    emitted,            \* what the stream generator has yielded, in order
    stream_hist,        \* history: what the generator pulled from the backend
                        \* stream, and whether and when the consumer closed it
    \* SpecLoop
    sched,              \* the backend call in flight and the thread it runs on
    \* SpecListing
    catalog,            \* the list get_models hands to a filtering route
    \* SpecRateLimit
    client_limiters,    \* RateLimitMiddleware.client_limiters
    traffic,            \* history: the last request the middleware handled and
                        \* the times of each client's requests
    \* SpecApiService
    process,            \* G4FApiService.process
    children,           \* the multiprocessing.Process objects made so far
    api_calls           \* history: the start and stop calls made so far

catalogVars == <<models_cache, providers_cache, cache_timestamp, initialized,
                 now, ret, last_fetch>>
providerVars == <<provider_name, resolved>>
dispatchVars == <<pc, req, attempt_number, wait, invocations, failures,
                  last_outcome, gen, emitted, stream_hist>>
moduleVars == <<imported, g4f_retries>>
rateVars == <<client_limiters, traffic>>
apiVars == <<process, children, api_calls>>
vars == <<moduleVars, providerVars, catalogVars, http, dispatchVars, sched, catalog,
          rateVars, apiVars>>

---------------------------------------------------------------------------
(* Python values.  None is a value of its own; strings that the code      *)
(* inspects character by character are sequences of one-character strings.*)

None == [type |-> "NoneType"]

PyStr(chars) == [type |-> "str", chars |-> chars]

\* no call has been made yet
Unset == [type |-> "unset"]

UpperChars == <<"A","B","C","E","F","G","H","I","N","O","P","T","U">>
LowerChars == <<"a","b","c","e","f","g","h","i","n","o","p","t","u">>

\* str.lower() on one character
LowerChar(c) ==
    IF \E i \in DOMAIN UpperChars : UpperChars[i] = c
    THEN LowerChars[CHOOSE i \in DOMAIN UpperChars : UpperChars[i] = c]
    ELSE c

UpperChar(c) ==
    IF \E i \in DOMAIN LowerChars : LowerChars[i] = c
    THEN UpperChars[CHOOSE i \in DOMAIN LowerChars : LowerChars[i] = c]
    ELSE c

\* str.lower()
Lower(s) == [i \in DOMAIN s |-> LowerChar(s[i])]

\* bool(x) of an Optional[str]
Truthy(x) == x # None /\ x.chars # <<>>

---------------------------------------------------------------------------
(* Provider classes bound at import time, g4f_service.py lines 9-19:      *)
(* either all three names are bound to provider classes or all are None.  *)

Bing == IF imported THEN [cls |-> "Bing"] ELSE None
OpenaiChat == IF imported THEN [cls |-> "OpenaiChat"] ELSE None
ChatGpt == IF imported THEN [cls |-> "ChatGpt"] ELSE None

\* [p for p in [Bing, OpenaiChat, ChatGpt] if p is not None]
available_providers ==
    SelectSeq(<<Bing, OpenaiChat, ChatGpt>>, LAMBDA p : p # None)

\* G4FService.__init__: self._default_provider
default_provider ==
    IF available_providers # <<>>
    THEN [cls |-> "RetryProvider", providers |-> available_providers]
    ELSE None

\* the dict built in _get_provider, as the set of its (key, value) pairs
provider_map ==
    (IF Bing # None THEN {<<(<<"b","i","n","g">>), Bing>>} ELSE {})
    \cup (IF OpenaiChat # None
          THEN {<<(<<"o","p","e","n","a","i">>), OpenaiChat>>} ELSE {})
    \cup (IF ChatGpt # None
          THEN {<<(<<"c","h","a","t","g","p","t">>), ChatGpt>>} ELSE {})

\* dict.get(key, default)
DictGet(d, key, default) ==
    IF \E kv \in d : kv[1] = key
    THEN (CHOOSE kv \in d : kv[1] = key)[2]
    ELSE default

\* a mutant of get_provider: the name is looked up without lower()
get_provider_case_sensitive(name) ==
    IF ~Truthy(name) \/ name.chars = <<"a","u","t","o">>
    THEN default_provider
    ELSE DictGet(provider_map, name.chars, default_provider)

\* G4FService._get_provider
get_provider(name) ==
    IF ~Truthy(name) \/ Lower(name.chars) = <<"a","u","t","o">>
    THEN default_provider
    ELSE DictGet(provider_map, Lower(name.chars), default_provider)

---------------------------------------------------------------------------
(* Inputs of SpecProvider: every letter-case variant of a few base names. *)

RECURSIVE CaseVariants(_)
CaseVariants(s) ==
    IF s = <<>> THEN {<<>>}
    ELSE {<<c>> \o t : c \in {s[1], UpperChar(s[1])}, t \in CaseVariants(Tail(s))}

BaseNames == {<<"a","u","t","o">>, <<"b","i","n","g">>,
              <<"o","p","e","n","a","i">>, <<"c","h","a","t","g","p","t">>,
              <<"g","4","f">>, <<"a","u","t">>, <<"b","i","n","g","o">>}

ProviderNames ==
    {None, PyStr(<<>>)} \cup {PyStr(s) : s \in UNION {CaseVariants(b) : b \in BaseNames}}

---------------------------------------------------------------------------
(* The catalog: G4FService's cache fields, the clock, and the routes of   *)
(* src/app/api/models.py that read it.                                     *)

\* self._cache_ttl
cache_ttl == 300

\* the clock advances in steps of TickStep seconds up to MaxNow
TickStep == 100
MaxNow == 601

PyList(items) == [type |-> "list", items |-> items]

ModelInfo(id, created) ==
    [id |-> id, object |-> "model", created |-> created, owned_by |-> "g4f"]

ProviderInfo(id, url, models) ==
    [id |-> id, url |-> url, models |-> models, supports_stream |-> TRUE]

\* G4FService._get_default_models, called when time.time() is t
get_default_models(t) ==
    PyList(<<ModelInfo("gpt-3.5-turbo", t), ModelInfo("gpt-4", t)>>)

\* G4FService._get_default_providers
get_default_providers ==
    PyList(<<ProviderInfo("OpenAI", "https://api.openai.com", <<"gpt-3.5-turbo", "gpt-4">>),
             ProviderInfo("Bing", "https://www.bing.com", <<"gpt-4">>)>>)

\* the static list built inside get_providers
providers_list ==
    PyList(<<ProviderInfo("OpenAI", "https://api.openai.com", <<"gpt-3.5-turbo", "gpt-4">>),
             ProviderInfo("Bing", "https://www.bing.com", <<"gpt-4">>),
             ProviderInfo("ChatGPT", "https://chat.openai.com", <<"gpt-3.5-turbo", "gpt-4">>)>>)

\* bool(x) of an Optional[List]
TruthyList(x) == x # None /\ x.items # <<>>

\* a mutant of is_cache_valid: the comparison is inverted
is_cache_valid_inverted(ts, t) ==
    IF ts = 0 THEN FALSE ELSE t - ts > cache_ttl

\* G4FService._is_cache_valid, with self._cache_timestamp = ts at time t
is_cache_valid(ts, t) ==
    IF ts = 0 THEN FALSE ELSE t - ts < cache_ttl

\* a mutant of get_models: the cache is served whenever the timestamp is
\* fresh, whatever the cache field holds
get_models_unchecked(mcache, ts, t, fail) ==
    IF is_cache_valid(ts, t)
    THEN [models_cache |-> mcache, cache_timestamp |-> ts, value |-> mcache,
          path |-> "cached", raised |-> FALSE]
    ELSE IF ~fail
    THEN [models_cache |-> get_default_models(t), cache_timestamp |-> t,
          value |-> get_default_models(t), path |-> "refreshed", raised |-> FALSE]
    ELSE [models_cache |-> mcache, cache_timestamp |-> ts,
          value |-> get_default_models(t), path |-> "failed", raised |-> FALSE]

\* a mutant of get_models: the except handler re-raises
get_models_reraise(mcache, ts, t, fail) ==
    IF is_cache_valid(ts, t) /\ TruthyList(mcache)
    THEN [models_cache |-> mcache, cache_timestamp |-> ts, value |-> mcache,
          path |-> "cached", raised |-> FALSE]
    ELSE IF ~fail
    THEN [models_cache |-> get_default_models(t), cache_timestamp |-> t,
          value |-> get_default_models(t), path |-> "refreshed", raised |-> FALSE]
    ELSE [models_cache |-> mcache, cache_timestamp |-> ts,
          value |-> None, path |-> "failed", raised |-> TRUE]

\* G4FService.get_models on the fields (mcache, ts) at time t.  fail: a statement
\* of the try block raises before the cache is written.  The result holds the
\* fields after the call, the returned value, the path taken, and whether an
\* exception leaves the call.
get_models(mcache, ts, t, fail) ==
    IF is_cache_valid(ts, t) /\ TruthyList(mcache)
    THEN [models_cache |-> mcache, cache_timestamp |-> ts, value |-> mcache,
          path |-> "cached", raised |-> FALSE]
    ELSE IF ~fail
    THEN [models_cache |-> get_default_models(t), cache_timestamp |-> t,
          value |-> get_default_models(t), path |-> "refreshed", raised |-> FALSE]
    ELSE [models_cache |-> mcache, cache_timestamp |-> ts,
          value |-> get_default_models(t), path |-> "failed", raised |-> FALSE]

\* where a statement of get_providers' try block may raise: nowhere, before
\* the cache is written (line 304), or after it (line 331)
FailPoints == {"none", "before", "after"}

\* a mutant of get_providers: a failed refresh serves the payload still held
get_providers_keep_last(pcache, ts, t, failAt) ==
    IF is_cache_valid(ts, t) /\ TruthyList(pcache)
    THEN [providers_cache |-> pcache, cache_timestamp |-> ts, value |-> pcache,
          path |-> "cached", raised |-> FALSE]
    ELSE IF failAt = "none"
    THEN [providers_cache |-> providers_list, cache_timestamp |-> t,
          value |-> providers_list, path |-> "refreshed", raised |-> FALSE]
    ELSE [providers_cache |-> pcache, cache_timestamp |-> ts,
          value |-> IF TruthyList(pcache) THEN pcache ELSE get_default_providers,
          path |-> "failed", raised |-> FALSE]

\* G4FService.get_providers on the fields (pcache, ts) at time t
get_providers(pcache, ts, t, failAt) ==
    IF is_cache_valid(ts, t) /\ TruthyList(pcache)
    THEN [providers_cache |-> pcache, cache_timestamp |-> ts, value |-> pcache,
          path |-> "cached", raised |-> FALSE]
    ELSE IF failAt = "none"
    THEN [providers_cache |-> providers_list, cache_timestamp |-> t,
          value |-> providers_list, path |-> "refreshed", raised |-> FALSE]
    ELSE IF failAt = "after"
    THEN [providers_cache |-> providers_list, cache_timestamp |-> t,
          value |-> get_default_providers, path |-> "failed", raised |-> FALSE]
    ELSE [providers_cache |-> pcache, cache_timestamp |-> ts,
          value |-> get_default_providers, path |-> "failed", raised |-> FALSE]

\* what a service call returned and when; held is the payload the cache
\* field held when the call began
Returned(op, r, held) ==
    [op |-> op, value |-> r.value, at |-> now, path |-> r.path,
     held |-> held, raised |-> r.raised]

NoReturn ==
    [op |-> "none", value |-> None, at |-> 0, path |-> "none",
     held |-> None, raised |-> FALSE]

\* history of the last successful refresh inside get_models; cleared records
\* that cleanup ran after it
FetchAfter(r) ==
    IF r.path = "refreshed"
    THEN [at |-> now, payload |-> r.value, cleared |-> FALSE]
    ELSE last_fetch

NoResponse == [route |-> "none", status |-> 0, body |-> None]

\* a direct call of G4FService.get_models
GetModels(fail) ==
    LET r == get_models(models_cache, cache_timestamp, now, fail) IN
    /\ models_cache' = r.models_cache
    /\ cache_timestamp' = r.cache_timestamp
    /\ ret' = Returned("get_models", r, models_cache)
    /\ last_fetch' = FetchAfter(r)
    /\ UNCHANGED <<providers_cache, initialized, now, http, moduleVars, sched, catalog, rateVars, apiVars, providerVars, dispatchVars>>

\* a direct call of G4FService.get_providers
GetProviders(failAt) ==
    LET r == get_providers(providers_cache, cache_timestamp, now, failAt) IN
    /\ providers_cache' = r.providers_cache
    /\ cache_timestamp' = r.cache_timestamp
    /\ ret' = Returned("get_providers", r, providers_cache)
    /\ UNCHANGED <<models_cache, initialized, now, http, last_fetch, moduleVars, sched, catalog, rateVars, apiVars, providerVars, dispatchVars>>

\* G4FService.initialize: get_models, then get_providers, then the flag; an
\* exception of either call is logged and the flag is set all the same
Initialize(fail, failAt) ==
    LET m == get_models(models_cache, cache_timestamp, now, fail)
        p == IF m.raised
             THEN [providers_cache |-> providers_cache,
                   cache_timestamp |-> m.cache_timestamp]
             ELSE get_providers(providers_cache, m.cache_timestamp, now, failAt)
    IN
    /\ models_cache' = m.models_cache
    /\ providers_cache' = p.providers_cache
    /\ cache_timestamp' = p.cache_timestamp
    /\ initialized' = TRUE
    /\ ret' = [op |-> "initialize", value |-> None, at |-> now, path |-> m.path,
               held |-> models_cache, raised |-> FALSE]
    /\ last_fetch' = FetchAfter(m)
    /\ UNCHANGED <<now, http, moduleVars, sched, catalog, rateVars, apiVars, providerVars, dispatchVars>>

\* G4FService.cleanup
Cleanup ==
    /\ models_cache' = None
    /\ providers_cache' = None
    /\ initialized' = FALSE
    /\ ret' = [op |-> "cleanup", value |-> None, at |-> now, path |-> "none",
               held |-> None, raised |-> FALSE]
    /\ last_fetch' = [last_fetch EXCEPT !.cleared = TRUE]
    /\ UNCHANGED <<cache_timestamp, now, http, moduleVars, sched, catalog, rateVars, apiVars, providerVars, dispatchVars>>

\* GET /v1/models: list_models
ListModels(fail) ==
    LET r == get_models(models_cache, cache_timestamp, now, fail) IN
    /\ models_cache' = r.models_cache
    /\ cache_timestamp' = r.cache_timestamp
    /\ ret' = Returned("get_models", r, models_cache)
    /\ last_fetch' = FetchAfter(r)
    /\ http' = IF r.raised
               THEN [route |-> "GET /v1/models", status |-> 500,
                     body |-> [detail |-> "Failed to retrieve models"]]
               ELSE [route |-> "GET /v1/models", status |-> 200,
                     body |-> [object |-> "list", data |-> r.value.items]]
    /\ UNCHANGED <<providers_cache, initialized, now, moduleVars, sched, catalog, rateVars, apiVars, providerVars, dispatchVars>>

\* GET /v1/providers: list_providers
ListProviders(failAt) ==
    LET r == get_providers(providers_cache, cache_timestamp, now, failAt) IN
    /\ providers_cache' = r.providers_cache
    /\ cache_timestamp' = r.cache_timestamp
    /\ ret' = Returned("get_providers", r, providers_cache)
    /\ http' = IF r.raised
               THEN [route |-> "GET /v1/providers", status |-> 500,
                     body |-> [detail |-> "Failed to retrieve providers"]]
               ELSE [route |-> "GET /v1/providers", status |-> 200,
                     body |-> [object |-> "list", data |-> r.value.items]]
    /\ UNCHANGED <<models_cache, initialized, now, last_fetch, moduleVars, sched, catalog, rateVars, apiVars, providerVars, dispatchVars>>

\* the ids GET /v1/models/{model_id} and GET /v1/providers/{provider_id} are
\* asked for
ModelIds == {"gpt-3.5-turbo", "gpt-4", "gpt-4o", "flux"}
ProviderIds == {"OpenAI", "Bing", "ChatGPT", "g4f", "openai"}

\* a mutant of find_by_id: the first entry is taken whatever its id
find_by_id_first(items, id) ==
    IF items = <<>> THEN 0 ELSE 1

\* `for x in xs: if x.id == id: return ...`: the index of the first entry
\* whose id is id, 0 when the loop ends without one
find_by_id(items, id) ==
    IF \E i \in DOMAIN items : items[i].id = id
    THEN CHOOSE i \in DOMAIN items :
            /\ items[i].id = id
            /\ \A j \in DOMAIN items : items[j].id = id => i <= j
    ELSE 0

\* the answer of a lookup route; path_id is the id of the request path
LookupResponse(route, id, status, body) ==
    [route |-> route, path_id |-> id, status |-> status, body |-> body]

\* GET /v1/models/{model_id}: retrieve_model
RetrieveModel(model_id, fail) ==
    LET r == get_models(models_cache, cache_timestamp, now, fail)
        route == "GET /v1/models/{model_id}"
        i == find_by_id(r.value.items, model_id)
    IN
    /\ models_cache' = r.models_cache
    /\ cache_timestamp' = r.cache_timestamp
    /\ ret' = Returned("get_models", r, models_cache)
    /\ last_fetch' = FetchAfter(r)
    /\ http' = IF r.raised
               THEN LookupResponse(route, model_id, 500,
                                   [detail |-> "Failed to retrieve model"])
               ELSE IF i # 0
               THEN LookupResponse(route, model_id, 200, r.value.items[i])
               ELSE LookupResponse(route, model_id, 404, [detail |-> "Model not found"])
    /\ UNCHANGED <<providers_cache, initialized, now, moduleVars, sched, catalog, rateVars, apiVars, providerVars, dispatchVars>>

\* GET /v1/providers/{provider_id}: retrieve_provider
RetrieveProvider(provider_id, failAt) ==
    LET r == get_providers(providers_cache, cache_timestamp, now, failAt)
        route == "GET /v1/providers/{provider_id}"
        i == find_by_id(r.value.items, provider_id)
    IN
    /\ providers_cache' = r.providers_cache
    /\ cache_timestamp' = r.cache_timestamp
    /\ ret' = Returned("get_providers", r, providers_cache)
    /\ http' = IF r.raised
               THEN LookupResponse(route, provider_id, 500,
                                   [detail |-> "Failed to retrieve provider"])
               ELSE IF i # 0
               THEN LookupResponse(route, provider_id, 200,
                        [id |-> r.value.items[i].id, url |-> r.value.items[i].url,
                         models |-> r.value.items[i].models,
                         params |-> [supports_stream |-> r.value.items[i].supports_stream],
                         object |-> "provider"])
               ELSE LookupResponse(route, provider_id, 404,
                                   [detail |-> "Provider not found"])
    /\ UNCHANGED <<models_cache, initialized, now, last_fetch, moduleVars, sched, catalog, rateVars, apiVars, providerVars, dispatchVars>>

\* the ids list_chat_models leaves out (chat.py:89)
chat_excluded_ids == {"flux", "dall-e-3", "dall-e-2", "midjourney"}

\* the ids list_image_models keeps (images.py:94)
image_ids == {"flux", "dall-e-3", "dall-e-2", "midjourney", "stable-diffusion"}

IsChatModel(model) == model.id \notin chat_excluded_ids
IsImageModel(model) == model.id \in image_ids

\* the list comprehension of list_chat_models
chat_models(models) == SelectSeq(models, IsChatModel)

\* the list comprehension of list_image_models and the default image models
\* it puts in place of an empty result, stamped with the time t
image_models(models, t) ==
    LET found == SelectSeq(models, IsImageModel) IN
    IF found = <<>>
    THEN <<ModelInfo("flux", t), ModelInfo("dall-e-3", t), ModelInfo("dall-e-2", t)>>
    ELSE found

\* the catalogs the listing routes are run on: at most MaxCatalog entries
MaxCatalog == 2
CatalogIds == {"gpt-4", "flux", "dall-e-3", "dall-e-2", "midjourney", "stable-diffusion"}
Catalogs ==
    {PyList(c) : c \in UNION {[1..n -> {ModelInfo(id, 1) : id \in CatalogIds}] :
                                 n \in 0..MaxCatalog}}

\* GET /v1/chat/completions/models: list_chat_models, with catalog the list
\* its get_models call returns
ListChatModels ==
    /\ catalog # None
    /\ http' = [route |-> "GET /v1/chat/completions/models", status |-> 200,
                body |-> [object |-> "list", data |-> chat_models(catalog.items)]]
    /\ UNCHANGED <<moduleVars, sched, catalog, rateVars, apiVars, providerVars, catalogVars, dispatchVars>>

\* GET /v1/images/models: list_image_models, likewise
ListImageModels ==
    /\ catalog # None
    /\ http' = [route |-> "GET /v1/images/models", status |-> 200,
                body |-> [object |-> "list", data |-> image_models(catalog.items, now)]]
    /\ UNCHANGED <<moduleVars, sched, catalog, rateVars, apiVars, providerVars, catalogVars, dispatchVars>>

\* time passes
Tick ==
    /\ now + TickStep <= MaxNow
    /\ now' = now + TickStep
    /\ UNCHANGED <<models_cache, providers_cache, cache_timestamp, initialized,
                   ret, http, last_fetch, moduleVars, sched, catalog, rateVars, apiVars, providerVars, dispatchVars>>

---------------------------------------------------------------------------
(* Dispatch: the pydantic models of src/app/models.py as validators, the  *)
(* tenacity retry policy, and the bodies of the three dispatch methods.    *)

\* a str whose characters the code does not inspect
Text(t) == [type |-> "str", text |-> t]

\* bool(x) of a str
TruthyText(x) == x.type = "str" /\ x.text # ""

\* class MessageRole
MessageRole == {"system", "user", "assistant", "function", "tool"}

Role(r) == [type |-> "MessageRole", text |-> r]

ValidationError == [ok |-> FALSE, error |-> "ValidationError"]

\* ChatMessage(role=role, content=content): role must be a MessageRole (or
\* its string value) and content a str, else pydantic raises ValidationError
ChatMessage(role, content) ==
    IF /\ role.type \in {"MessageRole", "str"}
       /\ role.text \in MessageRole
       /\ content.type = "str"
    THEN [ok |-> TRUE,
          value |-> [type |-> "ChatMessage", role |-> role.text, content |-> content.text]]
    ELSE ValidationError

\* ImageData(url=url, b64_json=b64_json): both Optional[str]
ImageData(url, b64_json) ==
    IF url.type \in {"str", "NoneType"} /\ b64_json.type \in {"str", "NoneType"}
    THEN [ok |-> TRUE,
          value |-> [url |-> url, b64_json |-> b64_json, revised_prompt |-> None]]
    ELSE ValidationError

\* the values of G4F_RETRIES the model draws from: 1..MaxRetries (the default
\* is 3; the backoff reaches its cap at the fifth wait)
MaxRetries == 6

\* a mutant of stop_after_attempt: one attempt too many
stop_after_attempt_exclusive(max_attempt_number, attempt) ==
    attempt > max_attempt_number

\* tenacity.stop_after_attempt(max_attempt_number), asked after attempt failed
stop_after_attempt(max_attempt_number, attempt) ==
    attempt >= max_attempt_number

Min(a, b) == IF a <= b THEN a ELSE b
Max(a, b) == IF a >= b THEN a ELSE b

RECURSIVE Pow2(_)
Pow2(n) == IF n <= 0 THEN 1 ELSE 2 * Pow2(n - 1)

\* a mutant of wait_exponential: no lower bound, the waits double from 1
wait_exponential_no_min(attempt) == Min(1 * Pow2(attempt - 1), 10)

\* tenacity.wait_exponential(multiplier=1, min=4, max=10) after attempt failed
wait_exponential(attempt) == Max(4, Min(1 * Pow2(attempt - 1), 10))

\* f"chatcmpl-{uuid.uuid4().hex[:29]}", u standing for the 29 hex digits
CompletionId(u) == [prefix |-> "chatcmpl-", hex |-> u]

\* a mutant of create_chat_completion: usage is estimated from the text
create_chat_completion_estimates(r, outcome, u, t) ==
    IF outcome.raised
    THEN [raised |-> TRUE, error |-> outcome.exc]
    ELSE [raised |-> FALSE,
          value |-> [id |-> CompletionId(u), object |-> "chat.completion",
                     created |-> t, model |-> r.model,
                     choices |-> <<[index |-> 0,
                                    message |-> ChatMessage(Role("assistant"), outcome.value).value,
                                    finish_reason |-> Text("stop")]>>,
                     usage |-> [prompt_tokens |-> Len(r.messages),
                                completion_tokens |-> 1,
                                total_tokens |-> Len(r.messages) + 1]]]

\* one execution of the body of G4FService.create_chat_completion for request
\* r: outcome is what g4f.ChatCompletion.create does, u the uuid4 drawn, t the
\* time.  The provider passed to the backend is get_provider(r.provider).
create_chat_completion(r, outcome, u, t) ==
    LET message == ChatMessage(Role("assistant"), outcome.value) IN
    IF outcome.raised
    THEN [raised |-> TRUE, error |-> outcome.exc]
    ELSE IF ~message.ok
    THEN [raised |-> TRUE, error |-> "ValidationError"]
    ELSE [raised |-> FALSE,
          value |-> [id |-> CompletionId(u), object |-> "chat.completion",
                     created |-> t, model |-> r.model,
                     choices |-> <<[index |-> 0, message |-> message.value,
                                    finish_reason |-> Text("stop")]>>,
                     usage |-> [prompt_tokens |-> 0, completion_tokens |-> 0,
                                total_tokens |-> 0]]]

\* str(v)
py_str(v) ==
    IF v.type = "str" THEN v
    ELSE IF v = None THEN Text("None")
    ELSE Text(v.repr)

\* a mutant of create_image_generation: the payload is stored in both fields
create_image_generation_both(r, outcome, t) ==
    IF outcome.raised
    THEN [raised |-> TRUE, error |-> outcome.exc]
    ELSE [raised |-> FALSE,
          value |-> [created |-> t,
                     data |-> <<ImageData(py_str(outcome.value),
                                          py_str(outcome.value)).value>>]]

\* a mutant of create_image_generation: one image per requested count
create_image_generation_fan_out(r, outcome, t) ==
    IF outcome.raised
    THEN [raised |-> TRUE, error |-> outcome.exc]
    ELSE [raised |-> FALSE,
          value |-> [created |-> t,
                     data |-> [i \in 1..r.n |->
                                 ImageData(py_str(outcome.value), None).value]]]

\* one execution of the body of G4FService.create_image_generation
create_image_generation(r, outcome, t) ==
    LET image_url == outcome.value
        data == ImageData(IF image_url.type = "str" THEN image_url
                          ELSE py_str(image_url), None)
    IN
    IF outcome.raised
    THEN [raised |-> TRUE, error |-> outcome.exc]
    ELSE IF ~data.ok
    THEN [raised |-> TRUE, error |-> "ValidationError"]
    ELSE [raised |-> FALSE,
          value |-> [created |-> t, data |-> <<data.value>>]]

---------------------------------------------------------------------------
(* The generator G4FService.create_chat_completion_stream.                 *)

\* ChatCompletionStreamChoice(index, delta, finish_reason): delta is declared
\* Dict[str, Any]; pydantic accepts a dict there and rejects a model instance
ChatCompletionStreamChoice(index, delta, finish_reason) ==
    IF delta.type = "dict"
    THEN [ok |-> TRUE,
          value |-> [index |-> index, delta |-> delta, finish_reason |-> finish_reason]]
    ELSE ValidationError

\* "data: " + ChatCompletionStreamResponse(...).model_dump_json()
StreamData(u, t, model, choice) ==
    [event |-> "chunk", id |-> CompletionId(u), object |-> "chat.completion.chunk",
     created |-> t, model |-> model, choices |-> <<choice>>]

\* lines 179-195: the chunk built for one backend fragment
content_chunk(u, t, model, chunk) ==
    LET delta == ChatMessage(Role("assistant"), chunk)
        choice == IF delta.ok
                  THEN ChatCompletionStreamChoice(0, delta.value, None)
                  ELSE ValidationError
    IN IF choice.ok
       THEN [ok |-> TRUE, value |-> StreamData(u, t, model, choice.value)]
       ELSE ValidationError

\* lines 198-211: the chunk built after the backend stream ended
final_chunk(u, t, model) ==
    LET delta == ChatMessage(None, None)
        choice == IF delta.ok
                  THEN ChatCompletionStreamChoice(0, delta.value, Text("stop"))
                  ELSE ValidationError
    IN IF choice.ok
       THEN [ok |-> TRUE, value |-> StreamData(u, t, model, choice.value)]
       ELSE ValidationError

\* "data: [DONE]"
DoneSentinel == [event |-> "[DONE]"]

\* lines 214-223: the chunk yielded by the except handler
error_chunk(message) ==
    [event |-> "error",
     error |-> [message |-> message, type |-> "server_error", code |-> "internal_error"]]

Yield(g, position, chunk) == [gen |-> [g EXCEPT !.pos = position], out |-> <<chunk>>]

\* lines 177-212: the generator runs from the head of the for loop to its
\* next yield; g.fragments is what the backend stream has yet to produce and
\* g.raises whether it raises after that
RECURSIVE stream_loop(_, _, _)
stream_loop(g, r, t) ==
    IF g.fragments = <<>>
    THEN IF g.raises
         THEN Yield(g, "after_error", error_chunk("BackendError"))
         ELSE LET final == final_chunk(g.id, t, r.model) IN
              IF final.ok
              THEN Yield(g, "after_final", final.value)
              ELSE Yield(g, "after_error", error_chunk("ValidationError"))
    ELSE LET chunk == Head(g.fragments)
             rest == [g EXCEPT !.fragments = Tail(g.fragments)]
         IN IF ~TruthyText(chunk)
            THEN stream_loop(rest, r, t)
            ELSE LET data == content_chunk(g.id, t, r.model, chunk) IN
                 IF data.ok
                 THEN Yield(rest, "loop", data.value)
                 ELSE Yield(rest, "after_error", error_chunk("ValidationError"))

\* a mutant of stream_resume: [DONE] is sent after the error chunk as well
stream_resume_done_after_error(g, r, open, u, t) ==
    IF g.pos = "start"
    THEN IF open.raised
         THEN Yield([g EXCEPT !.id = u], "after_error", error_chunk("BackendError"))
         ELSE stream_loop([pos |-> "loop", fragments |-> open.fragments,
                           raises |-> open.raises, id |-> u], r, t)
    ELSE IF g.pos = "loop"
    THEN stream_loop(g, r, t)
    ELSE IF g.pos \in {"after_final", "after_error"}
    THEN Yield(g, "after_done", DoneSentinel)
    ELSE [gen |-> [g EXCEPT !.pos = "closed", !.fragments = <<>>, !.raises = FALSE],
          out |-> <<>>]

\* one resumption of the generator, from where it is suspended to its next
\* yield or its end.  open is what g4f.ChatCompletion.create(stream=True)
\* does when the generator starts, u the uuid4 drawn then.
stream_resume(g, r, open, u, t) ==
    IF g.pos = "start"
    THEN IF open.raised
         THEN Yield([g EXCEPT !.id = u], "after_error", error_chunk("BackendError"))
         ELSE stream_loop([pos |-> "loop", fragments |-> open.fragments,
                           raises |-> open.raises, id |-> u], r, t)
    ELSE IF g.pos = "loop"
    THEN stream_loop(g, r, t)
    ELSE IF g.pos = "after_final"
    THEN Yield(g, "after_done", DoneSentinel)
    ELSE [gen |-> [g EXCEPT !.pos = "closed", !.fragments = <<>>, !.raises = FALSE],
          out |-> <<>>]

---------------------------------------------------------------------------
(* Requests and backend behaviours the dispatch specification draws from.  *)

\* the uuid4 values a call may draw
MaxUuid == 2
Uuids == 1..MaxUuid

RequestProviders == {None, PyStr(<<"B","i","n","g">>), PyStr(<<"g","4","f">>)}

ChatRequests ==
    [model : {"gpt-4o", "gpt-4"},
     messages : {<<>>,
                 <<[role |-> "user", content |-> "Hello"]>>,
                 <<[role |-> "system", content |-> "Be brief"],
                   [role |-> "user", content |-> "Hello"]>>},
     stream : BOOLEAN,
     provider : RequestProviders]

ImageRequests ==
    [prompt : {<<>>, <<" ">>, <<"o","t","t","e","r">>},
     model : {"flux"},
     n : {1, 2, 10},
     response_format : {"url", "b64_json", "png"},
     provider : {None, PyStr(<<"B","i","n","g">>)}]

\* the backend call raises an exception of class exc, which the except clause
\* of the dispatch method logs and re-raises
BackendRaises == [raised |-> TRUE, value |-> None, exc |-> "Exception"]
BackendRaisesValueError == [raised |-> TRUE, value |-> None, exc |-> "ValueError"]

\* what g4f.ChatCompletion.create(stream=False) does for a chat request
ChatOutcomes ==
    {BackendRaises, BackendRaisesValueError} \cup {[raised |-> FALSE, value |-> Text(t)] : t \in {"", "Hello!"}}

\* what it does for an image request
ImageOutcomes ==
    {BackendRaises, BackendRaisesValueError} \cup
    {[raised |-> FALSE, value |-> v] :
        v \in {Text("https://img.example/1.png"), Text(""), None,
               [type |-> "ImageResponse", repr |-> "![](https://img.example/1.png)"]}}

\* the fragments a backend stream produces: at most MaxFragments of them
MaxFragments == 2
Fragments == {Text(""), Text("a"), Text("b")}
FragmentSeqs == UNION {[1..n -> Fragments] : n \in 0..MaxFragments}

\* what g4f.ChatCompletion.create(stream=True) does: it raises, or returns a
\* stream that produces fragments and then ends or raises
StreamOpens ==
    {[raised |-> TRUE, fragments |-> <<>>, raises |-> FALSE]} \cup
    {[raised |-> FALSE, fragments |-> f, raises |-> b] :
        f \in FragmentSeqs, b \in BOOLEAN}

\* history of a stream: the fragments the for loop has pulled from the backend
\* stream, whether that stream raised, and, once the consumer has closed the
\* generator, how many chunks it had received and how many fragments had
\* been pulled by then (closed_after is -1 until then)
NoStream ==
    [pulled |-> <<>>, backend_raised |-> FALSE, closed_after |-> -1,
     pulled_at_close |-> 0, remaining_at_close |-> 0]

\* the fragments consumed between two states of the backend stream
Pulled(before, after) == SubSeq(before, 1, Len(before) - Len(after))

\* a mutant of aclose: the generator ignores the close
aclose_ignored(g) == g

\* closing the generator at the yield where it is suspended: GeneratorExit
\* is no Exception, so the except clause does not run; the frame and with it
\* the backend stream it holds are dropped
aclose(g) == [g EXCEPT !.pos = "closed", !.fragments = <<>>, !.raises = FALSE]

NoRequest == [kind |-> "none"]
\* no backend call is in flight
NoCall == [call |-> "none", thread |-> "none", since |-> 0]

NoOutcome == [raised |-> FALSE, value |-> Unset]
ClosedGen == [pos |-> "closed", fragments |-> <<>>, raises |-> FALSE, id |-> 0]

\* str.strip() of a string of spaces and letters
RECURSIVE LStrip(_)
LStrip(s) == IF s # <<>> /\ Head(s) = " " THEN LStrip(Tail(s)) ELSE s

RECURSIVE RStrip(_)
RStrip(s) ==
    IF s # <<>> /\ s[Len(s)] = " " THEN RStrip(SubSeq(s, 1, Len(s) - 1)) ELSE s

Strip(s) == RStrip(LStrip(s))

\* FastAPI's rendering of HTTPException(status_code, detail)
HTTPException(route, status, detail) ==
    [route |-> route, status |-> status, body |-> [detail |-> detail]]

---------------------------------------------------------------------------
(* Dispatch actions.                                                       *)

\* a mutant of messages_empty: the route does not look at the messages
messages_empty_never(r) == FALSE

\* `not request.messages` (chat.py:30)
messages_empty(r) == r.messages = <<>>

\* POST /v1/chat/completions: the route create_chat_completion, up to its
\* first suspension
PostChatCompletions(r) ==
    /\ pc = "idle"
    /\ req' = [kind |-> "chat", body |-> r]
    /\ attempt_number' = 1
    /\ wait' = 0
    /\ invocations' = 0
    /\ failures' = 0
    /\ last_outcome' = NoOutcome
    /\ emitted' = <<>>
    /\ stream_hist' = NoStream
    /\ IF messages_empty(r)
       THEN /\ http' = HTTPException("POST /v1/chat/completions", 400,
                                     "Messages cannot be empty")
            /\ pc' = "idle"
            /\ gen' = ClosedGen
       ELSE IF r.stream
       THEN /\ http' = [route |-> "POST /v1/chat/completions", status |-> 200,
                        body |-> [media_type |-> "text/event-stream"]]
            /\ pc' = "stream"
            /\ gen' = [ClosedGen EXCEPT !.pos = "start"]
       ELSE /\ http' = NoResponse
            /\ pc' = "attempt"
            /\ gen' = ClosedGen
    /\ UNCHANGED <<moduleVars, sched, catalog, rateVars, apiVars, providerVars, catalogVars>>

\* the except clauses of a dispatch route, for an exception of class exc
\* raised by the awaited service call: ValueError answers 400 with str(e),
\* every other class 500 with the route's fixed detail
route_except(route, exc, detail) ==
    IF exc = "ValueError"
    THEN HTTPException(route, 400, exc)
    ELSE HTTPException(route, 500, detail)

\* what tenacity and the route do with the result a of one attempt: @retry
\* has no retry= predicate, so every exception class is retried, and no
\* reraise=True, so when it stops it raises RetryError to the route
AfterAttempt(route, a, detail) ==
    IF ~a.raised
    THEN /\ http' = [route |-> route, status |-> 200, body |-> a.value]
         /\ pc' = "idle"
         /\ wait' = 0
    ELSE IF stop_after_attempt(g4f_retries, attempt_number)
    THEN /\ http' = route_except(route, "RetryError", detail)
         /\ pc' = "idle"
         /\ wait' = 0
    ELSE /\ http' = http
         /\ pc' = "sleep"
         /\ wait' = wait_exponential(attempt_number)

\* a mutant of ChatAttempt: a completed attempt invalidates the catalog cache
ChatAttempt_invalidates(outcome, u) ==
    /\ pc = "attempt"
    /\ req.kind = "chat"
    /\ invocations' = invocations + 1
    /\ failures' = failures + (IF outcome.raised THEN 1 ELSE 0)
    /\ last_outcome' = outcome
    /\ AfterAttempt("POST /v1/chat/completions",
                    create_chat_completion(req.body, outcome, u, now),
                    "Internal server error occurred while processing chat completion")
    /\ cache_timestamp' = 0
    /\ UNCHANGED <<req, attempt_number, gen, emitted, stream_hist, moduleVars, sched,
                   catalog, rateVars, apiVars, providerVars, models_cache, providers_cache,
                   initialized, now, ret, last_fetch>>

\* one attempt of G4FService.create_chat_completion under @retry
ChatAttempt(outcome, u) ==
    /\ pc = "attempt"
    /\ req.kind = "chat"
    /\ invocations' = invocations + 1
    /\ failures' = failures + (IF outcome.raised THEN 1 ELSE 0)
    /\ last_outcome' = outcome
    /\ AfterAttempt("POST /v1/chat/completions",
                    create_chat_completion(req.body, outcome, u, now),
                    "Internal server error occurred while processing chat completion")
    /\ UNCHANGED <<req, attempt_number, gen, emitted, stream_hist, moduleVars, sched, catalog, rateVars, apiVars, providerVars, catalogVars>>

\* POST /v1/images/generate: the route create_image_generation
PostImagesGenerate(r) ==
    /\ pc = "idle"
    /\ req' = [kind |-> "image", body |-> r]
    /\ attempt_number' = 1
    /\ wait' = 0
    /\ invocations' = 0
    /\ failures' = 0
    /\ last_outcome' = NoOutcome
    /\ emitted' = <<>>
    /\ stream_hist' = NoStream
    /\ gen' = ClosedGen
    /\ IF r.prompt = <<>> \/ Strip(r.prompt) = <<>>
       THEN /\ http' = HTTPException("POST /v1/images/generate", 400,
                                     "Prompt cannot be empty")
            /\ pc' = "idle"
       ELSE IF r.response_format \notin {"url", "b64_json"}
       THEN /\ http' = HTTPException("POST /v1/images/generate", 400,
                                     "Response format must be 'url' or 'b64_json'")
            /\ pc' = "idle"
       ELSE /\ http' = NoResponse
            /\ pc' = "attempt"
    /\ UNCHANGED <<moduleVars, sched, catalog, rateVars, apiVars, providerVars, catalogVars>>

\* one attempt of G4FService.create_image_generation under @retry
ImageAttempt(outcome) ==
    /\ pc = "attempt"
    /\ req.kind = "image"
    /\ invocations' = invocations + 1
    /\ failures' = failures + (IF outcome.raised THEN 1 ELSE 0)
    /\ last_outcome' = outcome
    /\ AfterAttempt("POST /v1/images/generate",
                    create_image_generation(req.body, outcome, now),
                    "Internal server error occurred while generating image")
    /\ UNCHANGED <<req, attempt_number, gen, emitted, stream_hist, moduleVars, sched, catalog, rateVars, apiVars, providerVars, catalogVars>>

\* tenacity sleeps for wait seconds, then starts the next attempt
RetrySleep ==
    /\ pc = "sleep"
    /\ pc' = "attempt"
    /\ attempt_number' = attempt_number + 1
    /\ UNCHANGED <<wait, req, invocations, failures, last_outcome, gen, emitted,
                   stream_hist, http,
                   moduleVars, sched, catalog, rateVars, apiVars, providerVars, catalogVars>>

\* the transport resumes the stream generator once
StreamResume(open, u) ==
    LET s == stream_resume(gen, req.body, open, u, now) IN
    /\ pc = "stream"
    /\ gen' = s.gen
    /\ emitted' = emitted \o s.out
    /\ pc' = IF s.gen.pos = "closed" THEN "idle" ELSE "stream"
    /\ invocations' = IF gen.pos = "start" THEN 1 ELSE invocations
    /\ failures' = IF gen.pos = "start" /\ open.raised THEN 1 ELSE failures
    /\ stream_hist' =
         LET before == IF gen.pos = "start" THEN open.fragments ELSE gen.fragments
             iterating == \/ gen.pos = "start" /\ ~open.raised
                          \/ gen.pos = "loop"
         IN IF iterating
            THEN [stream_hist EXCEPT
                    !.pulled = @ \o Pulled(before, s.gen.fragments),
                    !.backend_raised = (s.out = <<error_chunk("BackendError")>>)]
            ELSE stream_hist
    /\ UNCHANGED <<req, attempt_number, wait, last_outcome, http,
                   moduleVars, sched, catalog, rateVars, apiVars, providerVars, catalogVars>>

\* the consumer closes the stream while the generator is suspended: the
\* transport stops iterating and the generator is closed
StreamClose ==
    /\ pc = "stream"
    /\ gen' = aclose(gen)
    /\ pc' = IF aclose(gen).pos = "closed" THEN "idle" ELSE "stream"
    /\ stream_hist' = [stream_hist EXCEPT
                         !.closed_after = Len(emitted),
                         !.pulled_at_close = Len(stream_hist.pulled),
                         !.remaining_at_close = Len(gen.fragments)]
    /\ UNCHANGED <<req, attempt_number, wait, invocations, failures, last_outcome,
                   emitted, http, moduleVars, sched, catalog, rateVars, apiVars, providerVars, catalogVars>>

---------------------------------------------------------------------------
(* The event loop thread and the backend calls in flight.  All coroutines  *)
(* run on the one event loop thread; a coroutine that awaits lets the      *)
(* others run, a synchronous call made by a coroutine does not.            *)

\* settings.g4f_timeout, the default of G4F_TIMEOUT in seconds; no statement
\* of the service reads it
g4f_timeout == 60

\* the dispatch methods that start with `await asyncio.to_thread(
\* g4f.ChatCompletion.create, ...)`
ToThreadCalls == {"chat", "image", "stream_open"}

\* a dispatch coroutine reaches its `await asyncio.to_thread(...)`: the
\* backend call runs on a worker thread and the coroutine is suspended
AwaitToThread(call) ==
    /\ sched.call = "none"
    /\ sched' = [call |-> call, thread |-> "worker", since |-> now]
    /\ UNCHANGED <<moduleVars, catalog, rateVars, apiVars, providerVars, catalogVars, http, dispatchVars>>

\* the backend call on the worker thread returns or raises.  The chat and
\* image methods then run to their end; the stream generator, given a stream,
\* enters `for chunk in stream`, whose next() is a synchronous call
ToThreadReturns(raised) ==
    /\ sched.thread = "worker"
    /\ sched' = IF sched.call = "stream_open" /\ ~raised
                THEN [call |-> "stream_next", thread |-> "loop", since |-> now]
                ELSE NoCall
    /\ UNCHANGED <<moduleVars, catalog, rateVars, apiVars, providerVars, catalogVars, http, dispatchVars>>

\* the backend stream answers the next() of the for loop: with an empty
\* fragment the loop calls next() again, with anything else (a fragment, the
\* end, an exception) the generator runs to a yield
NextReturns(empty) ==
    /\ sched.call = "stream_next"
    /\ sched' = IF empty
                THEN [call |-> "stream_next", thread |-> "loop", since |-> now]
                ELSE NoCall
    /\ UNCHANGED <<moduleVars, catalog, rateVars, apiVars, providerVars, catalogVars, http, dispatchVars>>

\* the event loop runs the coroutine of an unrelated request, which it can
\* do when its thread is not inside a synchronous call
LoopListModels(fail) == sched.thread # "loop" /\ ListModels(fail)
LoopListProviders(failAt) == sched.thread # "loop" /\ ListProviders(failAt)

---------------------------------------------------------------------------
(* RateLimitMiddleware of src/app/utils/middleware.py: one aiolimiter      *)
(* AsyncLimiter (a leaky bucket) per client ip.  The level of a bucket is  *)
(* kept multiplied by time_window, so that the leak of max_requests per    *)
(* time_window seconds stays in the integers.                              *)

MaxRequests == 2

\* self.max_requests: the constructor argument
max_requests == MaxRequests

\* self.time_window: settings.rate_limit_window
time_window == 60

\* the requests reaching the middleware: the X-Forwarded-For header, the
\* X-Real-IP header and the peer address, each of which may be absent
RateRequests ==
    [forwarded_for : {None, PyStr(<<"A">>), PyStr(<<" ", "A", " ", ",", "B">>),
                      PyStr(<<"B", ",", "A">>), PyStr(<<>>)},
     real_ip : {None, PyStr(<<"B">>), PyStr(<<>>)},
     client : {None, [host |-> <<"A">>]}]

\* bool(x) of an Optional[str] header value
TruthyHeader(x) == x # None /\ x.chars # <<>>

\* s.split(",")[0]
RECURSIVE FirstField(_)
FirstField(s) ==
    IF s = <<>> \/ Head(s) = "," THEN <<>> ELSE <<Head(s)>> \o FirstField(Tail(s))

Unknown == <<"u", "n", "k", "n", "o", "w", "n">>

\* RateLimitMiddleware._get_client_ip
get_client_ip(request) ==
    IF TruthyHeader(request.forwarded_for)
    THEN Strip(FirstField(request.forwarded_for.chars))
    ELSE IF TruthyHeader(request.real_ip) THEN request.real_ip.chars
    ELSE IF request.client # None THEN request.client.host ELSE Unknown

\* AsyncLimiter(max_rate, time_period) at time t: an empty bucket
AsyncLimiter(t) == [level |-> 0, last_check |-> t]

\* AsyncLimiter._leak at time t
leak(limiter, t) ==
    [level |-> Max(limiter.level - (t - limiter.last_check) * max_requests, 0),
     last_check |-> t]

\* AsyncLimiter.has_capacity(amount) of a bucket that has just leaked
has_capacity(limiter, amount) ==
    limiter.level + amount * time_window <= max_requests * time_window

\* AsyncLimiter.acquire(amount) once the bucket has capacity: the bucket
\* fills by amount and the coroutine returns None
acquire(limiter, amount) ==
    [limiter |-> [limiter EXCEPT !.level = @ + amount * time_window], value |-> None]

NoLimiters == [c \in {} |-> AsyncLimiter(0)]
NoTraffic == [client_ip |-> None, prior |-> 0, forwarded |-> FALSE,
              times |-> [c \in {} |-> <<>>]]

\* the requests of a client that fall in the time_window ending at t
RECURSIVE InWindow(_, _)
InWindow(times, t) ==
    IF times = <<>> THEN <<>>
    ELSE IF t - Head(times) < time_window
         THEN <<Head(times)>> \o InWindow(Tail(times), t)
         ELSE InWindow(Tail(times), t)

TooManyRequests ==
    [route |-> "RateLimitMiddleware.dispatch", status |-> 429,
     body |-> [error |-> [message |-> "Rate limit exceeded",
                          type |-> "rate_limit_error",
                          code |-> "rate_limit_exceeded"]],
     headers |-> [retry_after |-> time_window, limit |-> max_requests,
                  window |-> time_window]]

\* call_next(request) with the two X-RateLimit headers added
Forwarded ==
    [route |-> "RateLimitMiddleware.dispatch", status |-> 200,
     body |-> "call_next",
     headers |-> [limit |-> max_requests, window |-> time_window]]

\* RateLimitMiddleware.dispatch for one request, run when acquire returns
\* (acquire suspends the coroutine while the client's bucket is full)
RateLimitDispatch(request) ==
    LET client_ip == get_client_ip(request)
        limiters == IF client_ip \in DOMAIN client_limiters
                    THEN client_limiters
                    ELSE [c \in DOMAIN client_limiters \cup {client_ip} |->
                            IF c = client_ip THEN AsyncLimiter(now)
                                             ELSE client_limiters[c]]
        limiter == leak(limiters[client_ip], now)
        acquired == acquire(limiter, 1)
        limited == acquired.value = None  \* `not` of what acquire returned
        earlier == IF client_ip \in DOMAIN traffic.times
                   THEN InWindow(traffic.times[client_ip], now) ELSE <<>>
    IN  /\ has_capacity(limiter, 1)
        /\ client_limiters' = [limiters EXCEPT ![client_ip] = acquired.limiter]
        /\ http' = IF limited THEN TooManyRequests ELSE Forwarded
        /\ traffic' = [client_ip |-> client_ip, prior |-> Len(earlier),
                       forwarded |-> ~limited,
                       times |-> [c \in DOMAIN limiters |->
                                    IF c = client_ip THEN Append(earlier, now)
                                    ELSE traffic.times[c]]]
        /\ UNCHANGED <<moduleVars, providerVars, catalogVars, dispatchVars, sched,
                       catalog, apiVars>>

---------------------------------------------------------------------------
(* G4FApiService of src/app/services/g4f_api_service.py: the owner of the  *)
(* backend server process.  A multiprocessing.Process is "initial" until    *)
(* its start() succeeds, then "started", and "terminated" once terminate() *)
(* and join() have returned.                                               *)

MaxCalls == 6

\* the attributes Settings.__init__ assigns (config.py:14-49); the class
\* defines no __getattr__, so reading any other name raises AttributeError
SettingsAttributes ==
    {"host", "port", "debug", "api_title", "api_description", "api_version",
     "g4f_provider", "g4f_model", "g4f_timeout", "g4f_retries",
     "rate_limit_requests", "rate_limit_window", "cors_enabled", "cors_origins",
     "openai_api_base", "openai_model_mapping"}

\* the settings start() reads, in the order it reads them
StartReads == <<"g4f_api_host", "g4f_api_port", "g4f_api_workers">>

\* `self.process and self.process.is_alive()`
process_is_alive(p, procs) == p # None /\ procs[p] = "started"

\* G4FApiService.start; spawn_fails: Process.start() raises
ApiStart(spawn_fails) ==
    /\ Len(api_calls) < MaxCalls
    /\ IF process_is_alive(process, children)
       THEN /\ UNCHANGED <<process, children>>
            /\ api_calls' = Append(api_calls, [op |-> "start", raised |-> FALSE,
                                               exc |-> "none"])
       ELSE IF \E i \in DOMAIN StartReads : StartReads[i] \notin SettingsAttributes
       THEN \* the f-string of line 18 raises inside the try block
            /\ UNCHANGED <<process, children>>
            /\ api_calls' = Append(api_calls, [op |-> "start", raised |-> TRUE,
                                               exc |-> "AttributeError"])
       ELSE /\ children' = Append(children,
                                  IF spawn_fails THEN "initial" ELSE "started")
            /\ process' = Len(children) + 1
            /\ api_calls' = Append(api_calls,
                                   [op |-> "start", raised |-> spawn_fails,
                                    exc |-> IF spawn_fails THEN "OSError" ELSE "none"])
    /\ UNCHANGED <<moduleVars, providerVars, catalogVars, http, dispatchVars, sched,
                   catalog, rateVars>>

\* G4FApiService.stop
ApiStop ==
    /\ Len(api_calls) < MaxCalls
    /\ IF process_is_alive(process, children)
       THEN children' = [children EXCEPT ![process] = "terminated"]
       ELSE UNCHANGED children
    /\ api_calls' = Append(api_calls, [op |-> "stop", raised |-> FALSE, exc |-> "none"])
    /\ UNCHANGED <<process, moduleVars, providerVars, catalogVars, http, dispatchVars,
                   sched, catalog, rateVars>>

---------------------------------------------------------------------------
(* Initial state: the module has been imported and G4FService() built.    *)

InitService ==
    /\ imported \in BOOLEAN
    /\ g4f_retries \in 1..MaxRetries
    /\ provider_name = Unset
    /\ resolved = None
    /\ models_cache = None
    /\ providers_cache = None
    /\ cache_timestamp = 0
    /\ initialized = FALSE
    /\ now = 1
    /\ ret = NoReturn
    /\ http = NoResponse
    /\ last_fetch = [at |-> 0, payload |-> None, cleared |-> FALSE]
    /\ pc = "idle"
    /\ req = NoRequest
    /\ attempt_number = 0
    /\ wait = 0
    /\ invocations = 0
    /\ failures = 0
    /\ last_outcome = NoOutcome
    /\ gen = ClosedGen
    /\ emitted = <<>>
    /\ stream_hist = NoStream
    /\ sched = NoCall
    /\ client_limiters = NoLimiters
    /\ traffic = NoTraffic
    /\ process = None
    /\ children = <<>>
    /\ api_calls = <<>>

Init == InitService /\ catalog = None

\* one call of _get_provider with an argument drawn from ProviderNames
ResolveProvider(name) ==
    /\ provider_name' = name
    /\ resolved' = get_provider(name)
    /\ UNCHANGED <<moduleVars, sched, catalog, rateVars, apiVars, catalogVars, http, dispatchVars>>

NextProvider == \E name \in ProviderNames : ResolveProvider(name)

\* _get_provider does not read the retry setting
InitProvider == Init /\ g4f_retries = 1

SpecProvider == InitProvider /\ [][NextProvider]_vars

NextCatalog ==
    \/ \E fail \in BOOLEAN : GetModels(fail)
    \/ \E failAt \in FailPoints : GetProviders(failAt)
    \/ \E fail \in BOOLEAN, failAt \in FailPoints : Initialize(fail, failAt)
    \/ Cleanup
    \/ \E fail \in BOOLEAN : ListModels(fail)
    \/ \E failAt \in FailPoints : ListProviders(failAt)
    \/ Tick

\* the catalog reads neither the provider classes nor the retry setting
InitCatalog == Init /\ imported /\ g4f_retries = 1

SpecCatalog == InitCatalog /\ [][NextCatalog]_vars

\* the lookups by id, on every cache state: cold, valid, expired, cleaned up
NextLookup ==
    \/ \E id \in ModelIds, fail \in BOOLEAN : RetrieveModel(id, fail)
    \/ \E id \in ProviderIds, failAt \in FailPoints : RetrieveProvider(id, failAt)
    \/ Cleanup
    \/ Tick

SpecLookup == InitCatalog /\ [][NextLookup]_vars

\* the two filtered listings on a catalog drawn from Catalogs
InitListing == InitService /\ imported /\ g4f_retries = 1 /\ catalog \in Catalogs

NextListing == ListChatModels \/ ListImageModels

SpecListing == InitListing /\ [][NextListing]_vars

\* requests unrelated to the backend call in flight
UnrelatedRequest ==
    \/ \E fail \in BOOLEAN : LoopListModels(fail)
    \/ \E failAt \in FailPoints : LoopListProviders(failAt)

NextLoop ==
    \/ \E call \in ToThreadCalls : AwaitToThread(call)
    \/ \E raised \in BOOLEAN : ToThreadReturns(raised)
    \/ \E empty \in BOOLEAN : NextReturns(empty)
    \/ UnrelatedRequest
    \/ Tick

SpecLoop == InitCatalog /\ [][NextLoop]_vars

\* dispatch and catalog operations in one process: one request of each kind
\* with every backend behaviour, next to every catalog operation
OwnChatRequests ==
    {r \in ChatRequests : r.model = "gpt-4" /\ Len(r.messages) = 1 /\ r.provider = None}
OwnImageRequests ==
    {r \in ImageRequests : r.prompt # <<>> /\ Strip(r.prompt) # <<>> /\ r.n = 1
                           /\ r.response_format = "url" /\ r.provider = None}

OwnChatOutcomes == {BackendRaises, [raised |-> FALSE, value |-> Text("Hello!")]}
OwnImageOutcomes ==
    {BackendRaises, [raised |-> FALSE, value |-> Text("https://img.example/1.png")]}
OwnStreamOpens == {open \in StreamOpens : Len(open.fragments) <= 1}

NextOwnership ==
    \/ \E r \in OwnChatRequests : PostChatCompletions(r)
    \/ \E outcome \in OwnChatOutcomes : ChatAttempt(outcome, 1)
    \/ \E r \in OwnImageRequests : PostImagesGenerate(r)
    \/ \E outcome \in OwnImageOutcomes : ImageAttempt(outcome)
    \/ RetrySleep
    \/ \E open \in OwnStreamOpens : StreamResume(open, 1)
    \/ StreamClose
    \/ \E fail \in BOOLEAN : GetModels(fail)
    \/ \E failAt \in FailPoints : GetProviders(failAt)
    \/ Cleanup
    \/ (now = 1 /\ Tick)

InitOwnership == Init /\ imported /\ g4f_retries = 2

SpecOwnership == InitOwnership /\ [][NextOwnership]_vars

\* the middleware alone, every request reaching it
NextRateLimit ==
    \/ \E request \in RateRequests : RateLimitDispatch(request)
    \/ Tick

InitRateLimit == Init /\ imported /\ g4f_retries = 1

SpecRateLimit == InitRateLimit /\ [][NextRateLimit]_vars

\* the module-level g4f_api_service and its callers
NextApiService ==
    \/ \E spawn_fails \in BOOLEAN : ApiStart(spawn_fails)
    \/ ApiStop

InitApiService == Init /\ imported /\ g4f_retries = 1

SpecApiService == InitApiService /\ [][NextApiService]_vars

Next ==
    \/ \E r \in ChatRequests : PostChatCompletions(r)
    \/ \E outcome \in ChatOutcomes, u \in Uuids : ChatAttempt(outcome, u)
    \/ \E r \in ImageRequests : PostImagesGenerate(r)
    \/ \E outcome \in ImageOutcomes : ImageAttempt(outcome)
    \/ RetrySleep
    \/ \E open \in StreamOpens, u \in Uuids : StreamResume(open, u)
    \/ StreamClose

Spec == Init /\ [][Next]_vars

---------------------------------------------------------------------------
(* Properties of the catalog, checked under SpecCatalog.                   *)

\* a step in which a caller invokes get_models: directly or through GET /v1/models
GetModelsCall == \E fail \in BOOLEAN : GetModels(fail) \/ ListModels(fail)

\* the ids of a list of ModelInfo or ProviderInfo, in order
IdsOf(list) == [i \in DOMAIN list.items |-> list.items[i].id]

\* C3 as stated: a get_models call made less than ttl after the last successful
\* get_models fetch returns that fetch's payload from the cache and writes
\* neither _models_cache nor _cache_timestamp, whatever get_providers,
\* initialize or cleanup calls happened in between.
C3_Original ==
    [][(GetModelsCall /\ last_fetch.at # 0 /\ now - last_fetch.at < cache_ttl)
        => (/\ ret'.path = "cached"
            /\ ret'.value = last_fetch.payload
            /\ UNCHANGED <<models_cache, cache_timestamp>>)]_vars

\* C3 amended: the same, provided cleanup has not run since that fetch; any
\* get_providers and initialize calls and clock advances may lie in between.
C3_CachedWithinTtl ==
    [][(GetModelsCall /\ last_fetch.at # 0 /\ now - last_fetch.at < cache_ttl
          /\ ~last_fetch.cleared)
        => (/\ ret'.path = "cached"
            /\ ret'.value = last_fetch.payload
            /\ UNCHANGED <<models_cache, cache_timestamp>>)]_vars

\* C3 witness: get_models answered from the cache 200 s after the fetch, with
\* an initialize (whose get_providers refreshed the timestamp) in between.
C3_Witness ==
    /\ ret.op = "get_models" /\ ret.path = "cached"
    /\ ~last_fetch.cleared
    /\ ret.at - last_fetch.at = 2 * TickStep
    /\ ret.value = last_fetch.payload
    /\ initialized /\ cache_timestamp > last_fetch.at

\* C4 as stated: get_models never returns a models payload whose own fetch
\* (the time its entries were created) lies ttl or more seconds back.
C4_Original ==
    ret.op = "get_models" => ret.at - ret.value.items[1].created < cache_ttl

\* C5: when the refresh inside get_models fails and no cache entry is held,
\* the ids returned are exactly gpt-3.5-turbo and gpt-4; no exception leaves
\* get_models or get_providers; GET /v1/models and GET /v1/providers answer
\* 200 with a data list.
C5_DefaultsNeverRaises ==
    /\ ret.op \in {"get_models", "get_providers"} => ~ret.raised
    /\ (ret.op = "get_models" /\ ret.path = "failed" /\ ret.held = None)
         => IdsOf(ret.value) = <<"gpt-3.5-turbo", "gpt-4">>
    /\ http.route \in {"GET /v1/models", "GET /v1/providers"}
         => (http.status = 200 /\ "data" \in DOMAIN http.body)

\* C5 witness: GET /v1/models whose refresh failed on an empty cache.
C5_Witness ==
    /\ ret.op = "get_models" /\ ret.path = "failed" /\ ret.held = None
    /\ http.route = "GET /v1/models" /\ http.status = 200
    /\ http.body.data = ret.value.items
    /\ models_cache = None

\* C6 as stated: a failed refresh returns the payload still held, and the
\* default set only when none is held.
C6_Original ==
    (ret.op \in {"get_models", "get_providers"} /\ ret.path = "failed")
      => IF TruthyList(ret.held)
         THEN ret.value = ret.held
         ELSE IdsOf(ret.value) = IF ret.op = "get_models"
                                 THEN <<"gpt-3.5-turbo", "gpt-4">>
                                 ELSE <<"OpenAI", "Bing">>

\* C6 amended: a failed refresh returns the hard-coded default set whether or
\* not a payload is held: models gpt-3.5-turbo and gpt-4 stamped with the
\* time of the call, providers OpenAI and Bing.
C6_DefaultsOnFailure ==
    (ret.op \in {"get_models", "get_providers"} /\ ret.path = "failed")
      => IF ret.op = "get_models"
         THEN /\ IdsOf(ret.value) = <<"gpt-3.5-turbo", "gpt-4">>
              /\ \A i \in DOMAIN ret.value.items :
                    ret.value.items[i].created = ret.at
         ELSE IdsOf(ret.value) = <<"OpenAI", "Bing">>

\* C6 witness: get_providers failed while an expired payload was held.
C6_Witness ==
    /\ ret.op = "get_providers" /\ ret.path = "failed"
    /\ TruthyList(ret.held) /\ ret.value # ret.held

\* C27: every get_models call returns a list of complete model entries that
\* is not empty, never None; whenever a cache field holds a list the shared
\* timestamp is not zero; and a get_models call that finds the cache field
\* cleared does not answer from the cache.
C27_CacheConsistent ==
    /\ ret.op = "get_models" =>
          /\ ret.value # None /\ ret.value.type = "list"
          /\ Len(ret.value.items) >= 1
          /\ \A i \in DOMAIN ret.value.items :
                DOMAIN ret.value.items[i] = {"id", "object", "created", "owned_by"}
    /\ (models_cache # None \/ providers_cache # None) => cache_timestamp # 0
    /\ (ret.op = "get_models" /\ ret.held = None) => ret.path # "cached"

\* C27 witness: get_models called after a cleanup (both fields cleared, the
\* timestamp still set and fresh) with a failing refresh: it returned the
\* default list.
C27_Witness ==
    /\ ret.op = "get_models" /\ ret.held = None /\ ret.path = "failed"
    /\ models_cache = None /\ providers_cache = None
    /\ cache_timestamp # 0 /\ is_cache_valid(cache_timestamp, ret.at)
    /\ IdsOf(ret.value) = <<"gpt-3.5-turbo", "gpt-4">>

---------------------------------------------------------------------------
(* Properties of the lookups by id, checked under SpecLookup.              *)

LookupRoutes == {"GET /v1/models/{model_id}", "GET /v1/providers/{provider_id}"}

\* C11: right after a lookup (ret holds the catalog its service call
\* returned) the lookup has answered 200 with the entry whose id is the
\* requested id when that catalog contains the id, and otherwise 404 with a
\* body that holds a detail text only; no other status occurs.
C11_Lookup ==
    (http.route \in LookupRoutes /\ ret.op \in {"get_models", "get_providers"}) =>
      IF \E i \in DOMAIN ret.value.items : ret.value.items[i].id = http.path_id
      THEN http.status = 200 /\ http.body.id = http.path_id
      ELSE http.status = 404 /\ DOMAIN http.body = {"detail"}

\* C11 witness: ChatGPT asked for while the refresh failed, so that the
\* catalog returned was the default one, which has no such entry.
C11_Witness ==
    /\ http.route = "GET /v1/providers/{provider_id}" /\ http.path_id = "ChatGPT"
    /\ http.status = 404 /\ ret.path = "failed"
    /\ IdsOf(ret.value) = <<"OpenAI", "Bing">>

\* C12 as stated: GET /v1/models/gpt-4o answers 200 with a descriptor whose
\* id is gpt-4o, in every cache state.
C12_Original ==
    (http.route = "GET /v1/models/{model_id}" /\ http.path_id = "gpt-4o")
      => (http.status = 200 /\ http.body.id = "gpt-4o")

---------------------------------------------------------------------------
(* Properties of the filtered listings, checked under SpecListing.         *)

ImageOnlyIds == {"flux", "dall-e-3", "dall-e-2", "midjourney", "stable-diffusion"}

---------------------------------------------------------------------------
(* Properties of the backend calls in flight, checked under SpecLoop.      *)

\* C15 as stated: a backend invocation of create_chat_completion or
\* create_image_generation is never in flight for longer than g4f_timeout.
C15_Original ==
    sched.call \in {"chat", "image"} => now - sched.since <= g4f_timeout

\* C20 as stated: whenever a request waits on the backend, for its first
\* response or for a later stream fragment, an unrelated request can run.
C20_Original ==
    sched.call # "none" => ENABLED UnrelatedRequest

---------------------------------------------------------------------------
(* Properties of _get_provider, checked under SpecProvider.                *)

Called == provider_name # Unset

\* name is key written in some letter case (key is lower case)
SameLetters(name, key) ==
    /\ Len(name) = Len(key)
    /\ \A i \in DOMAIN key : name[i] = key[i] \/ name[i] = UpperChar(key[i])

AbsentOrAuto ==
    \/ provider_name = None
    \/ provider_name.chars = <<>>
    \/ SameLetters(provider_name.chars, <<"a","u","t","o">>)

KnownNames ==
    {<<(<<"b","i","n","g">>), "Bing">>,
     <<(<<"o","p","e","n","a","i">>), "OpenaiChat">>,
     <<(<<"c","h","a","t","g","p","t">>), "ChatGpt">>}

\* C7 as stated: an absent name and "auto" in any case give the default
\* failover provider; bing, openai, chatgpt in any case give that concrete
\* provider; every other name gives the default failover provider.
C7_Original ==
    Called =>
      IF AbsentOrAuto THEN resolved = default_provider
      ELSE IF \E k \in KnownNames : SameLetters(provider_name.chars, k[1])
      THEN \E k \in KnownNames :
              /\ SameLetters(provider_name.chars, k[1])
              /\ resolved = [cls |-> k[2]]
      ELSE resolved = default_provider

\* C7 amended: as stated, except that a known name gives its concrete provider
\* only when the provider classes were importable; when they were not, a
\* known name gives the default failover provider like any unmatched name.
C7_Resolution ==
    Called =>
      IF AbsentOrAuto THEN resolved = default_provider
      ELSE IF \E k \in KnownNames : SameLetters(provider_name.chars, k[1])
      THEN \E k \in KnownNames :
              /\ SameLetters(provider_name.chars, k[1])
              /\ resolved = IF imported THEN [cls |-> k[2]] ELSE default_provider
      ELSE resolved = default_provider

\* C7 witness: a known name in mixed case resolved to its concrete provider.
C7_Witness ==
    /\ provider_name = PyStr(<<"B","i","N","g">>)
    /\ resolved = [cls |-> "Bing"]

---------------------------------------------------------------------------
(* Properties of the dispatch, checked under Spec.                         *)

\* the stream of the request in req has ended
StreamEnded ==
    /\ req.kind = "chat" /\ req.body.messages # <<>> /\ req.body.stream
    /\ pc = "idle"

\* the non-streaming chat call of the request in req has ended
ChatCallEnded ==
    /\ req.kind = "chat" /\ req.body.messages # <<>> /\ ~req.body.stream
    /\ pc = "idle"

\* the image call of the request in req has ended
ImageCallEnded ==
    /\ req.kind = "image" /\ invocations > 0
    /\ pc = "idle"

CarriesFinishReason(c) ==
    c.event = "chunk" /\ c.choices[1].finish_reason = Text("stop")

\* C1 as stated: whatever the backend does, the sequence a stream produced
\* ends with exactly one chunk carrying finish_reason "stop", followed by the
\* [DONE] sentinel as its last element.
C1_Original ==
    StreamEnded =>
      /\ Len(emitted) >= 2
      /\ emitted[Len(emitted)] = DoneSentinel
      /\ CarriesFinishReason(emitted[Len(emitted) - 1])
      /\ Cardinality({i \in DOMAIN emitted : CarriesFinishReason(emitted[i])}) = 1

\* C2: a non-streaming chat call never makes more than g4f_retries backend
\* invocations; while it is running every invocation so far has failed; it
\* returns success on the first invocation that succeeds, the N-th after N-1
\* failures; it fails after exactly g4f_retries failed invocations.
C2_RetryCount ==
    /\ req.kind = "chat" => invocations <= g4f_retries
    /\ (req.kind = "chat" /\ pc \in {"attempt", "sleep"})
         => (failures = invocations /\ invocations < g4f_retries)
    /\ (ChatCallEnded /\ ~last_outcome.raised)
         => (http.status = 200 /\ invocations = failures + 1)
    /\ (ChatCallEnded /\ last_outcome.raised)
         => (http.status = 500 /\ invocations = g4f_retries
             /\ failures = g4f_retries)

\* C2 witness: the call succeeded on its last permitted attempt.
C2_Witness ==
    /\ ChatCallEnded /\ http.status = 200
    /\ g4f_retries = MaxRetries
    /\ invocations = g4f_retries /\ failures = g4f_retries - 1

IsError(c) == c.event = "error"

IsContent(c) == c.event = "chunk" /\ c.choices[1].finish_reason = None

\* C13: once the backend stream has raised during the iteration, the sequence
\* ends with exactly one error chunk carrying message, type and code; only
\* content chunks precede it (no finish-reason chunk, no [DONE], no second
\* error chunk), nothing follows it, the backend was invoked once, and the
\* generator ends without raising.
C13_OneErrorChunk ==
    stream_hist.backend_raised =>
      /\ Len(emitted) >= 1
      /\ IsError(emitted[Len(emitted)])
      /\ DOMAIN emitted[Len(emitted)].error = {"message", "type", "code"}
      /\ \A i \in 1..(Len(emitted) - 1) : IsContent(emitted[i])
      /\ invocations = 1
      /\ gen.pos \in {"after_error", "closed"}
      /\ gen.pos = "closed" => pc = "idle"

\* C13 witness: the backend stream raised after two fragments and the
\* generator, resumed after the error chunk, ended by itself.
C13_Witness ==
    /\ stream_hist.backend_raised /\ Len(stream_hist.pulled) = 2
    /\ stream_hist.closed_after = -1
    /\ gen.pos = "closed" /\ pc = "idle"
    /\ emitted = <<error_chunk("BackendError")>>

\* C14 as stated: every response of a dispatch route with a 4xx/5xx status
\* has the body {"error": {"message", "type", "code"}}.
C14_Original ==
    http.status >= 400 =>
      /\ DOMAIN http.body = {"error"}
      /\ DOMAIN http.body.error = {"message", "type", "code"}

TruthyFragments(f) == SelectSeq(f, TruthyText)

\* the contents of the content chunks emitted, in order
EmittedContents ==
    LET cs == SelectSeq(emitted, IsContent) IN
    [i \in DOMAIN cs |-> cs[i].choices[1].delta.content]

\* C17 as stated: whenever the generator is suspended or has ended, the
\* contents of the content chunks emitted are, in order, the non-empty
\* fragments pulled from the backend stream.
C17_Original ==
    (req.kind = "chat" /\ gen.pos # "start") =>
      EmittedContents = [i \in DOMAIN TruthyFragments(stream_hist.pulled) |->
                            TruthyFragments(stream_hist.pulled)[i].text]

\* C18 as stated: a non-streaming call whose backend invocation raised
\* ValueError answers 400 and invoked the backend once.
C18_Original ==
    (pc = "idle" /\ req.kind \in {"chat", "image"} /\ invocations > 0
       /\ last_outcome.raised /\ last_outcome.exc = "ValueError")
      => (http.status = 400 /\ invocations = 1)

\* C19: once the consumer has closed the stream after k chunks, no chunk is
\* emitted and no fragment pulled any more, and the generator is closed with
\* the backend stream dropped.
C19_NothingAfterClose ==
    stream_hist.closed_after >= 0 =>
      /\ Len(emitted) = stream_hist.closed_after
      /\ Len(stream_hist.pulled) = stream_hist.pulled_at_close
      /\ gen.pos = "closed" /\ gen.fragments = <<>>
      /\ pc = "idle"

\* C19 witness: closed after one chunk while the backend stream still held a
\* fragment.
C19_Witness ==
    /\ stream_hist.closed_after = 1 /\ stream_hist.remaining_at_close = 1
    /\ stream_hist.pulled = <<Text("a")>>
    /\ Len(emitted) = 1 /\ gen.pos = "closed"

\* C21: a chat request whose messages list is empty, streaming or not, is
\* answered 400 and reaches neither dispatch method: no backend invocation,
\* no attempt pending, no generator created, nothing emitted.
C21_EmptyNeverDispatched ==
    (req.kind = "chat" /\ req.body.messages = <<>>) =>
      /\ http.route = "POST /v1/chat/completions" /\ http.status = 400
      /\ invocations = 0 /\ failures = 0
      /\ pc = "idle" /\ gen = ClosedGen /\ emitted = <<>>

\* C21 witness: a streaming request with no messages answered 400.
C21_Witness ==
    /\ req.kind = "chat" /\ req.body.messages = <<>> /\ req.body.stream
    /\ http.status = 400 /\ http.body.detail = "Messages cannot be empty"

\* C22 as stated: whenever the generator of a stream is suspended or has
\* ended, it has emitted one content chunk for each fragment pulled from the
\* backend stream, empty fragments included, carrying that fragment's text;
\* and once the backend stream has ended without raising, a terminal chunk
\* follows them.
C22_Original ==
    (req.kind = "chat" /\ gen.pos # "start") =>
      /\ EmittedContents = [i \in DOMAIN stream_hist.pulled |-> stream_hist.pulled[i].text]
      /\ (gen.pos \in {"after_error", "after_final", "after_done"}
            /\ ~stream_hist.backend_raised /\ failures = 0)
           => \E i \in DOMAIN emitted : CarriesFinishReason(emitted[i])

\* C23 as stated: a stream whose initial backend call failed has invoked the
\* backend g4f_retries times by the time its error chunk is produced.
C23_Original ==
    (req.kind = "chat" /\ req.body.messages # <<>> /\ req.body.stream
       /\ failures > 0 /\ emitted # <<>>)
      => invocations = g4f_retries

\* C24 as stated: the wait before attempt k+1 is double the wait before
\* attempt k, capped at the maximum delay of 10 s, and never exceeds 10 s.
C24_Original ==
    [][(pc = "attempt" /\ pc' = "sleep" /\ attempt_number >= 2)
        => (wait' = Min(2 * wait, 10) /\ wait' <= 10)]_vars

\* C24 amended: the wait after the k-th failed attempt is 4 s for k <= 3, 8 s
\* for k = 4 and 10 s from k = 5 on, that is max(4, min(2^(k-1), 10)); it
\* never decreases from one wait to the next and lies between 4 s and 10 s.
C24_Backoff ==
    [][(pc = "attempt" /\ pc' = "sleep")
        => (/\ wait' = IF attempt_number <= 3 THEN 4
                       ELSE IF attempt_number = 4 THEN 8 ELSE 10
            /\ wait' >= wait
            /\ wait' >= 4 /\ wait' <= 10)]_vars

\* C24 witness: the fifth wait of an image request, at the cap.
C24_Witness ==
    /\ pc = "sleep" /\ req.kind = "image"
    /\ attempt_number = 5 /\ failures = 5 /\ wait = 10

\* C25: an image request, whatever its count n, has made one backend
\* invocation per attempt started and finished (none is pending while an
\* attempt is about to run), never more than one by a single attempt, and a
\* successful result holds exactly one image.
C25_OneCallOneImage ==
    /\ req.kind = "image" =>
          invocations = IF pc = "attempt" THEN attempt_number - 1 ELSE
                        IF http.status = 400 THEN 0 ELSE attempt_number
    /\ (ImageCallEnded /\ ~last_outcome.raised) =>
          /\ http.status = 200 /\ Len(http.body.data) = 1
          /\ invocations = failures + 1

\* C25 witness: ten images asked for, one returned, after one failed attempt.
C25_Witness ==
    /\ ImageCallEnded /\ req.body.n = 10 /\ http.status = 200
    /\ Len(http.body.data) = 1
    /\ invocations = 2 /\ attempt_number = 2

\* C8: when the backend call of a non-streaming request succeeds, the answer
\* is 200 with an id, exactly one choice (index 0, role assistant, content
\* the backend text, finish_reason "stop"), the request's model and zero
\* usage counts.
C8_SingleChoice ==
    (ChatCallEnded /\ invocations > 0 /\ ~last_outcome.raised) =>
      /\ http.route = "POST /v1/chat/completions" /\ http.status = 200
      /\ "id" \in DOMAIN http.body
      /\ Len(http.body.choices) = 1
      /\ http.body.choices[1].index = 0
      /\ http.body.choices[1].message.role = "assistant"
      /\ http.body.choices[1].message.content = last_outcome.value.text
      /\ http.body.choices[1].finish_reason = Text("stop")
      /\ http.body.model = req.body.model
      /\ http.body.usage = [prompt_tokens |-> 0, completion_tokens |-> 0,
                            total_tokens |-> 0]

\* C8 witness: a two-message request answered after one failed attempt.
C8_Witness ==
    /\ ChatCallEnded /\ http.status = 200 /\ failures = 1
    /\ Len(req.body.messages) = 2
    /\ http.body.choices[1].message.content = "Hello!"

\* a field of ImageData is populated when it holds a string
Populated(x) == x # None

---------------------------------------------------------------------------
(* Ownership of the shared state, checked under SpecOwnership.             *)

cacheFields == <<models_cache, providers_cache, cache_timestamp>>

\* C26: a step of a dispatch operation (one that changes the state of the
\* request in progress) leaves the cache fields, the initialized flag and the
\* imported provider classes, on which the default provider depends, as they
\* are, and while a request is in progress it does not change the request; a
\* step that changes a cache field is a step of get_models, get_providers or
\* cleanup and touches no request.
C26_DispatchFrame ==
    [][/\ dispatchVars' # dispatchVars
            => (/\ UNCHANGED <<cacheFields, initialized, imported>>
                /\ pc # "idle" => req' = req)
       /\ cacheFields' # cacheFields
            => (/\ ret'.op \in {"get_models", "get_providers", "cleanup"}
                /\ UNCHANGED dispatchVars)]_vars

\* C26 witness: a completion answered one tick after both cache fields were
\* filled, after a failed attempt and a retry, with the cache as it was.
C26_Witness ==
    /\ ChatCallEnded /\ http.status = 200 /\ failures = 1
    /\ http.body.created = 1 + TickStep
    /\ models_cache # None /\ models_cache.items[1].created = 1
    /\ providers_cache # None /\ cache_timestamp = 1

---------------------------------------------------------------------------
(* Properties of the rate limiter, checked under SpecRateLimit.            *)

\* the middleware has just answered a request
RateLimited == http.route = "RateLimitMiddleware.dispatch"

\* C28: a request of a client that has made fewer than max_requests
\* requests in the current time_window is forwarded to the application and
\* is not answered with 429
C28_Original ==
    (RateLimited /\ traffic.prior < max_requests)
        => (traffic.forwarded /\ http.status # 429)

---------------------------------------------------------------------------
(* Properties of the backend server process, checked under SpecApiService. *)

\* a step that is a call of start
StartCall == \E spawn_fails \in BOOLEAN : ApiStart(spawn_fails)

\* C29: the service owns at most one live process; start while the process
\* is alive creates no process, start with no live process creates exactly
\* one new live process, after stop the owned process is not alive, and
\* stop with no live process changes nothing
C29_Original ==
    [][/\ Cardinality({i \in DOMAIN children' : children'[i] = "started"}) <= 1
       /\ (StartCall /\ process_is_alive(process, children))
            => UNCHANGED <<process, children>>
       /\ (StartCall /\ ~process_is_alive(process, children))
            => (/\ Len(children') = Len(children) + 1
                /\ process_is_alive(process', children'))
       /\ ApiStop => ~process_is_alive(process', children')
       /\ (ApiStop /\ ~process_is_alive(process, children))
            => UNCHANGED <<process, children>>]_vars

====
